---- MODULE Spec2Model ----
(***************************************************************************)
(* Timesheet-Service: the TimeEntry collection (models/TimeEntry.ts), the  *)
(* request validation middleware (middleware/validation.ts) and the six    *)
(* handlers of controllers/timeEntryController.ts, driven by concurrent    *)
(* HTTP requests.  Every await of a handler is one step: the store call    *)
(* runs atomically, other requests interleave between two awaits.          *)
(* The connection cache of config/database.ts is driven by callers of      *)
(* connectDB whose calls and resumptions run as jobs of one event loop.    *)
(*                                                                         *)
(* Conventions.  A request body / query is a record holding exactly the    *)
(* fields the client sent.  JSON values are spelled as strings; the JSON   *)
(* number 0 is spelled "0".  Instants (JS Date values) are ranks on the    *)
(* time line, see ParseDate.                                               *)
(***************************************************************************)
EXTENDS Integers, Sequences, FiniteSets, TLC

\* ------------------------------------------------------------------ bounds
NumProcs == 2
MaxIds == 2
MaxUpdates == 1

Procs == 1..NumProcs

\* callers of connectDB, and calls of mongoose.connect
NumCallers == 3
MaxAttempts == 3

Callers == 1..NumCallers

\* ------------------------------------------------------- values and casts
InvalidDate == 0 - 1
NoDate == 0 - 2
NoString == "<undefined>"

\* new Date(x) as JS, Joi.date() and mongoose's Date cast compute it: the
\* instant the text denotes (a rank on the time line), or Invalid Date.
ParseDate(x) ==
  CASE x = "0" -> 0
    [] x = "2024-01-01" -> 1
    [] x = "2024-01-01T00:00:00.000Z" -> 1
    [] x = "2024-01-07T23:59:59.999Z" -> 2
    [] x = "2024-01-08T00:00:00.000Z" -> 3
    [] x = "2024-01-14T23:59:59.999Z" -> 4
    [] OTHER -> InvalidDate

\* The instants new Date() can return: always later than the dates above.
Clock == {5, 6}

\* JS truthiness of a supplied JSON value: the number 0 and the empty
\* string are falsy, every other string is truthy.
Truthy(x) == x # "0" /\ x # ""

\* String.prototype.trim, as the schema's trim: true setter and Joi's
\* .trim() apply it.
Trim(s) ==
  CASE s = " user123 " -> "user123"
    [] s = " padded note " -> "padded note"
    [] s = " manager1 " -> "manager1"
    [] s = "   " -> ""
    [] OTHER -> s

Statuses == {"draft", "submitted", "approved", "rejected"}

\* ObjectIds in the order new TimeEntry() generates them.
ObjectIdHex ==
  << "65a000000000000000000001", "65a000000000000000000002",
     "65a000000000000000000003", "65a000000000000000000004",
     "65a000000000000000000005", "65a000000000000000000006" >>

FakeId == "507f1f77bcf86cd799439011"

\* an _id taken from the size of the collection
NewObjectId_Reuse(n, st) == ObjectIdHex[Cardinality(DOMAIN st) + 1]

\* an _id that is the same for every document
NewObjectId_First(n, st) == ObjectIdHex[1]

\* the _id new TimeEntry() gives the n+1st document built by this process
NewObjectId(n, st) == ObjectIdHex[n + 1]

\* mongoose's cast of a path parameter to ObjectId succeeds on 24 hex digits.
IsObjectId(s) == s = FakeId \/ \E i \in 1..Len(ObjectIdHex) : s = ObjectIdHex[i]

Has(r, f) == f \in DOMAIN r
Get(r, f, d) == IF Has(r, f) THEN r[f] ELSE d
With(r, f, v) == [x \in DOMAIN r \cup {f} |-> IF x = f THEN v ELSE r[x]]
Without(r, f) == [x \in DOMAIN r \ {f} |-> r[x]]
Empty == [x \in {} |-> ""]

\* ------------------------------------------------------------- the schema
\* TimeEntrySchema.hours validator
HoursValid(hours) ==
  Len(hours) = 7 /\ \A i \in 1..Len(hours) : hours[i] >= 0 /\ hours[i] <= 24

\* ------------------------------------------- middleware/validation.ts
\* Joi rules, one message per violated rule, in the order of the schema's
\* keys (abortEarly: false).  Joi validates the converted value (userId
\* trimmed, date parsed) but validate() discards it: req.body is passed on
\* as the client sent it.
JoiRequired(r, f) ==
  IF Has(r, f) THEN <<>> ELSE << "\"" \o f \o "\" is required" >>

JoiStringTrimmed(r, f) ==
  IF Has(r, f) /\ Trim(r[f]) = ""
  THEN << "\"" \o f \o "\" is not allowed to be empty" >> ELSE <<>>

JoiString(r, f) ==
  IF Has(r, f) /\ r[f] = ""
  THEN << "\"" \o f \o "\" is not allowed to be empty" >> ELSE <<>>

JoiDate(r, f) ==
  IF Has(r, f) /\ ParseDate(r[f]) = InvalidDate
  THEN << "\"" \o f \o "\" must be a valid date" >> ELSE <<>>

\* Joi.array().items(Joi.number().min(0).max(24)): one message per item out
\* of range, labelled with the item's 0-based index, in item order.
JoiHoursItems(hours) ==
  LET F[i \in 0..Len(hours)] ==
        IF i = 0 THEN <<>>
        ELSE F[i - 1] \o
             (IF hours[i] < 0
              THEN << "\"hours[" \o ToString(i - 1)
                      \o "]\" must be greater than or equal to 0" >>
              ELSE IF hours[i] > 24
              THEN << "\"hours[" \o ToString(i - 1)
                      \o "]\" must be less than or equal to 24" >>
              ELSE <<>>)
  IN F[Len(hours)]

\* ... .length(7): the items are checked before the length rule
JoiHours(r) ==
  IF ~Has(r, "hours") THEN <<>>
  ELSE JoiHoursItems(r.hours)
       \o (IF Len(r.hours) # 7
           THEN << "\"hours\" must contain 7 items" >> ELSE <<>>)

JoiStatus(r) ==
  IF Has(r, "status") /\ r.status \notin Statuses
  THEN << "\"status\" must be one of [draft, submitted, approved, rejected]" >>
  ELSE <<>>

\* a validation that stops at the first violation (abortEarly: true)
CreateBodyErrors_AbortEarly(body) ==
  SubSeq(JoiRequired(body, "userId") \o JoiStringTrimmed(body, "userId")
         \o JoiRequired(body, "weekStart") \o JoiDate(body, "weekStart")
         \o JoiRequired(body, "weekEnd") \o JoiDate(body, "weekEnd")
         \o JoiRequired(body, "hours") \o JoiHours(body)
         \o JoiString(body, "notes") \o JoiStatus(body), 1, 1)

\* timeEntrySchemas.create.body
CreateBodyErrors(body) ==
  JoiRequired(body, "userId") \o JoiStringTrimmed(body, "userId")
  \o JoiRequired(body, "weekStart") \o JoiDate(body, "weekStart")
  \o JoiRequired(body, "weekEnd") \o JoiDate(body, "weekEnd")
  \o JoiRequired(body, "hours") \o JoiHours(body)
  \o JoiString(body, "notes") \o JoiStatus(body)

\* timeEntrySchemas.update.body
UpdateBodyErrors(body) ==
  JoiStringTrimmed(body, "userId")
  \o JoiDate(body, "weekStart") \o JoiDate(body, "weekEnd")
  \o JoiHours(body) \o JoiString(body, "notes") \o JoiStatus(body)
  \o JoiDate(body, "submittedAt") \o JoiDate(body, "approvedAt")
  \o JoiStringTrimmed(body, "approvedBy")

\* timeEntrySchemas.getById.params / update.params: the router only matches
\* a non-empty path segment, so id is always a non-empty string here.
IdParamErrors(id) ==
  IF id = "" THEN << "\"id\" is not allowed to be empty" >> ELSE <<>>

\* validate(): body first, then query, then params.
ValidateCreate(body) == CreateBodyErrors(body)
ValidateId(id) == IdParamErrors(id)

\* an update route that validates the path parameter only
ValidateUpdate_ParamsOnly(id, body) == IdParamErrors(id)

ValidateUpdate(id, body) == UpdateBodyErrors(body) \o IdParamErrors(id)

\* Number(x) of a query-string value
NaN == 0 - 1
ToNumber(x) ==
  CASE x = "0" -> 0 [] x = "1" -> 1 [] x = "2" -> 2 [] x = "3" -> 3
    [] x = "50" -> 50 [] x = "100" -> 100 [] x = "101" -> 101
    [] OTHER -> NaN

JoiIntRange(r, f, lo, hi) ==
  IF ~Has(r, f) THEN <<>>
  ELSE IF ToNumber(r[f]) = NaN THEN << "\"" \o f \o "\" must be a number" >>
  ELSE (IF ToNumber(r[f]) < lo
        THEN << "\"" \o f \o "\" must be greater than or equal to " \o ToString(lo) >>
        ELSE <<>>)
       \o (IF hi # NaN /\ ToNumber(r[f]) > hi
           THEN << "\"" \o f \o "\" must be less than or equal to " \o ToString(hi) >>
           ELSE <<>>)

\* timeEntrySchemas.list.query
ListQueryErrors(query) ==
  JoiString(query, "userId") \o JoiStatus(query)
  \o JoiDate(query, "weekStart") \o JoiDate(query, "weekEnd")
  \o JoiIntRange(query, "limit", 1, 100) \o JoiIntRange(query, "page", 1, NaN)

ValidateList(query) == ListQueryErrors(query)

\* ------------------------------------------------------ response envelopes
NoReq == [op |-> "none"]

Success(code, docs, msg) ==
  [status |-> code, success |-> TRUE, error |-> "", details |-> <<>>,
   data |-> docs, message |-> msg]

Failure(code, err) ==
  [status |-> code, success |-> FALSE, error |-> err, details |-> <<>>,
   data |-> <<>>, message |-> ""]

ValidationFailed(errs) ==
  [status |-> 400, success |-> FALSE, error |-> "Validation failed",
   details |-> errs, data |-> <<>>, message |-> ""]

InvalidIdentifier == Failure(400, "Invalid time entry ID")
NotFound == Failure(404, "Time entry not found")
DuplicateEntry == Failure(400, "Time entry already exists for this week")
MissingParameters == Failure(400, "userId and weekStart are required")
Continue == Failure(0, "")

\* ------------------------------------------------------------------ state
VARIABLES
  store,     \* the TimeEntry collection: _id -> document
  nextId,    \* number of ObjectIds generated so far
  pc,        \* per request slot: "idle", or the await it is suspended at
  req,       \* per request slot: the request in flight and its locals
  out,       \* the last response sent, with its request
  deleted,   \* history: ids whose Delete was answered 200
  nUpdates,  \* history: number of updates the store has applied
  cached,    \* config/database.ts: global.mongoose = { conn, promise }
  attempts,  \* the promises of mongoose.connect(): state and awaiting callers
  tasks,     \* the job queue: calls of connectDB and resumptions, in order
  call       \* per caller of connectDB: where it is, what it awaits, its outcome

apiVars == << store, nextId, pc, req, out, deleted, nUpdates >>
dbVars == << cached, attempts, tasks, call >>
vars == << store, nextId, pc, req, out, deleted, nUpdates,
           cached, attempts, tasks, call >>

\* ------------------------------------------------ the persistence layer
\* TimeEntrySchema.index({ userId: 1, weekStart: 1 }, { unique: true }):
\* some document other than `self` holds the key.
KeyHeldByOther_NoIndex(st, self, userId, weekStart) == FALSE

KeyHeldByOther(st, self, userId, weekStart) ==
  \E id \in DOMAIN st :
    id # self /\ st[id].userId = userId /\ st[id].weekStart = weekStart

KeyHeld(st, userId, weekStart) == KeyHeldByOther(st, "", userId, weekStart)

\* TimeEntry.findOne({ userId, weekStart }): the query is cast through the
\* schema (trim setter on userId), the result is a list of 0 or 1 documents.
FindOne(st, userId, weekStart) ==
  LET hits == { id \in DOMAIN st :
                  st[id].userId = Trim(userId) /\ st[id].weekStart = weekStart }
  IN IF hits = {} THEN <<>> ELSE << st[CHOOSE id \in hits : TRUE] >>

NewTimeEntry_NeverStamp(id, body, now) ==
  [ _id |-> id,
    userId |-> Trim(body.userId),
    weekStart |-> ParseDate(body.weekStart),
    weekEnd |-> ParseDate(body.weekEnd),
    hours |-> body.hours,
    notes |-> IF Has(body, "notes") /\ Truthy(body.notes) THEN Trim(body.notes) ELSE "",
    status |-> IF Has(body, "status") /\ Truthy(body.status) THEN body.status ELSE "draft",
    submittedAt |-> NoDate,
    approvedAt |-> NoDate,
    approvedBy |-> NoString,
    createdAt |-> now,
    updatedAt |-> now ]

NewTimeEntry_WeekEndFromStart(id, body, now) ==
  [ _id |-> id,
    userId |-> Trim(body.userId),
    weekStart |-> ParseDate(body.weekStart),
    weekEnd |-> ParseDate(body.weekStart),
    hours |-> body.hours,
    notes |-> IF Has(body, "notes") /\ Truthy(body.notes) THEN Trim(body.notes) ELSE "",
    status |-> IF Has(body, "status") /\ Truthy(body.status) THEN body.status ELSE "draft",
    submittedAt |-> IF Has(body, "status") /\ body.status = "submitted" THEN now ELSE NoDate,
    approvedAt |-> NoDate,
    approvedBy |-> NoString,
    createdAt |-> now,
    updatedAt |-> now ]

\* new TimeEntry({...}) of createTimeEntry, with the schema's setters, and the
\* timestamps save() adds.
NewTimeEntry(id, body, now) ==
  [ _id |-> id,
    userId |-> Trim(body.userId),
    weekStart |-> ParseDate(body.weekStart),
    weekEnd |-> ParseDate(body.weekEnd),
    hours |-> body.hours,
    notes |-> IF Has(body, "notes") /\ Truthy(body.notes) THEN Trim(body.notes) ELSE "",
    status |-> IF Has(body, "status") /\ Truthy(body.status) THEN body.status ELSE "draft",
    submittedAt |-> IF Has(body, "status") /\ body.status = "submitted" THEN now ELSE NoDate,
    approvedAt |-> NoDate,
    approvedBy |-> NoString,
    createdAt |-> now,
    updatedAt |-> now ]

\* document validation run by save() and by runValidators
SchemaErrors(doc) ==
  (IF doc.userId = "" THEN << "User ID is required" >> ELSE <<>>)
  \o (IF HoursValid(doc.hours) THEN <<>>
      ELSE << "Hours must be an array of 7 numbers between 0 and 24" >>)
  \o (IF doc.status \in Statuses THEN <<>>
      ELSE << doc.status \o " is not a valid enum value for path status." >>)

\* the paths of the TimeEntry schema an update may set
UpdatePaths ==
  { "userId", "weekStart", "weekEnd", "hours", "notes", "status",
    "submittedAt", "approvedAt", "approvedBy" }

\* an update that never writes the hours path
CastUpdate_NoHours(body, now) ==
  LET stamp == Has(body, "status") /\ body.status = "submitted"
               /\ ~(Has(body, "submittedAt") /\ Truthy(body.submittedAt))
      set == IF Has(body, "$set") THEN body["$set"] ELSE Empty
      supplied(f) == IF Has(body, f) THEN body[f] ELSE set[f]
      paths == (DOMAIN body \cup DOMAIN set
                \cup (IF stamp THEN {"submittedAt"} ELSE {}))
               \cap (UpdatePaths \ {"hours"})
  IN [ f \in paths |->
         CASE f = "submittedAt" -> IF stamp THEN now ELSE ParseDate(supplied(f))
           [] f \in {"weekStart", "weekEnd", "approvedAt"} -> ParseDate(supplied(f))
           [] f \in {"userId", "notes", "approvedBy"} -> Trim(supplied(f))
           [] OTHER -> supplied(f) ]

\* an update that passes req.body on without the stamp of lines 162-164
CastUpdate_NoStamp(body, now) ==
  LET set == IF Has(body, "$set") THEN body["$set"] ELSE Empty
      supplied(f) == IF Has(body, f) THEN body[f] ELSE set[f]
      paths == (DOMAIN body \cup DOMAIN set) \cap UpdatePaths
  IN [ f \in paths |->
         CASE f \in {"weekStart", "weekEnd", "submittedAt", "approvedAt"}
                -> ParseDate(supplied(f))
           [] f \in {"userId", "notes", "approvedBy"} -> Trim(supplied(f))
           [] OTHER -> supplied(f) ]

\* updateTimeEntry's stamping of req.body, then mongoose's cast of the update
\* { ...updates }: the top-level keys are moved into $set next to the keys of
\* a $set operator the body carries (validate() lets unknown keys through
\* and req.body is passed on as sent); each path is cast through the schema,
\* paths the schema does not know are dropped.
CastUpdate(body, now) ==
  LET stamp == Has(body, "status") /\ body.status = "submitted"
               /\ ~(Has(body, "submittedAt") /\ Truthy(body.submittedAt))
      set == IF Has(body, "$set") THEN body["$set"] ELSE Empty
      supplied(f) == IF Has(body, f) THEN body[f] ELSE set[f]
      paths == (DOMAIN body \cup DOMAIN set
                \cup (IF stamp THEN {"submittedAt"} ELSE {}))
               \cap UpdatePaths
  IN [ f \in paths |->
         CASE f = "submittedAt" -> IF stamp THEN now ELSE ParseDate(supplied(f))
           [] f \in {"weekStart", "weekEnd", "approvedAt"} -> ParseDate(supplied(f))
           [] f \in {"userId", "notes", "approvedBy"} -> Trim(supplied(f))
           [] OTHER -> supplied(f) ]

\* a replacement of the document instead of a $set
ApplyUpdate_Replace(doc, body, now) ==
  LET set == CastUpdate(body, now)
  IN [ f \in DOMAIN doc |->
         IF f = "updatedAt" THEN now
         ELSE IF f \in DOMAIN set THEN set[f]
         ELSE IF f \in {"_id", "createdAt", "userId", "weekStart", "weekEnd", "hours"}
         THEN doc[f]
         ELSE IF f = "notes" THEN ""
         ELSE IF f = "status" THEN "draft"
         ELSE IF f = "approvedBy" THEN NoString ELSE NoDate ]

\* the document findByIdAndUpdate writes: $set of the cast paths, updatedAt
ApplyUpdate(doc, body, now) ==
  LET set == CastUpdate(body, now)
  IN [ f \in DOMAIN doc |->
         IF f = "updatedAt" THEN now
         ELSE IF f \in DOMAIN set THEN set[f] ELSE doc[f] ]

\* ----------------------------------------------------------- the requests

\* mockTimeEntry of the API tests
Mock ==
  [ userId |-> "user123",
    weekStart |-> "2024-01-01T00:00:00.000Z",
    weekEnd |-> "2024-01-07T23:59:59.999Z",
    hours |-> <<8, 8, 8, 8, 8, 0, 0>>,
    notes |-> "Test timesheet entry",
    status |-> "draft" ]

\* the same week of the same user, spelled differently; defaults left out
PaddedMock ==
  [ userId |-> " user123 ", weekStart |-> "2024-01-01",
    weekEnd |-> "2024-01-07T23:59:59.999Z",
    hours |-> <<8, 8, 8, 8, 8, 0, 0>>, notes |-> " padded note " ]

\* another user, submitted
OtherMock ==
  [ userId |-> "user456", weekStart |-> "2024-01-01T00:00:00.000Z",
    weekEnd |-> "2024-01-07T23:59:59.999Z",
    hours |-> <<0, 0, 0, 0, 0, 24, 24>>, status |-> "submitted" ]

\* rejected by the validation layer
ShortHours == With(Mock, "hours", <<8, 8, 8, 8, 8>>)

IdParams == { ObjectIdHex[i] : i \in 1..MaxIds } \cup { FakeId, "invalid-id" }

\* Requests of the concurrent clients of Spec: few field values, every key
\* collision.
CreateBodies == { Mock, PaddedMock, OtherMock, ShortHours }

UpdateBodies ==
  { [ userId |-> "user456" ],
    \* role is a key of neither the update schema nor the TimeEntry schema
    [ notes |-> "Updated notes", status |-> "submitted", role |-> "admin" ],
    [ hours |-> <<8, 8, 8, 8, 25>>, status |-> "done" ],
    \* $set is not a key of the update schema
    "$set" :> [ status |-> "submitted" ] }

WeekQueries ==
  { [ userId |-> "user123", weekStart |-> "2024-01-01T00:00:00.000Z" ],
    [ userId |-> "user999", weekStart |-> "2024-01-01T00:00:00.000Z" ],
    [ userId |-> "user123" ] }

ListQueries ==
  { Empty,
    [ userId |-> "user123" ],
    [ status |-> "done", limit |-> "0" ] }

\* Requests of the clients of SpecList
ListCreateBodies == { Mock, OtherMock }

\* Requests of the single client of SpecFields: every field, default and
\* spelling of a value, on two keys.
FieldCreateBodies ==
  { Mock, PaddedMock,
    With(Without(Mock, "notes"), "status", "submitted"),
    \* submittedAt is not a field of the create schema
    With(OtherMock, "submittedAt", "2024-01-08T00:00:00.000Z"),
    With(Without(Mock, "userId"), "weekStart", "not-a-date"),
    \* seven items, two of them out of range
    With(Mock, "hours", <<8, 8, 8, 8, 8, 0 - 1, 25>>) }

FieldUpdateBodies ==
  { [ notes |-> "Updated notes", status |-> "submitted" ],
    [ status |-> "submitted", submittedAt |-> "0" ],
    [ status |-> "submitted", submittedAt |-> "2024-01-08T00:00:00.000Z" ],
    [ status |-> "approved", approvedAt |-> "2024-01-08T00:00:00.000Z",
      approvedBy |-> " manager1 " ],
    [ hours |-> <<0, 0, 0, 0, 0, 24, 24>>,
      weekEnd |-> "2024-01-14T23:59:59.999Z" ],
    [ status |-> "rejected", hours |-> <<8, 8, 8, 8, 8>> ] }

FieldWeekQueries ==
  { [ userId |-> " user123 ", weekStart |-> "2024-01-01" ],
    [ userId |-> "", weekStart |-> "2024-01-01" ],
    [ userId |-> "user123" ],
    [ userId |-> "user123", weekStart |-> "not-a-date" ] }

FieldListQueries ==
  { [ status |-> "submitted" ],
    [ limit |-> "101", page |-> "0" ] }

\* Requests of the single client of SpecPages: the two entries of the List
\* tests and a third one sharing a user with the first and a week with the
\* second; every filter alone, two together, pages of one and of two.
WeekTwoMock ==
  [ userId |-> "user456", weekStart |-> "2024-01-08T00:00:00.000Z",
    weekEnd |-> "2024-01-14T23:59:59.999Z",
    hours |-> <<8, 8, 8, 8, 8, 0, 0>>, notes |-> "Test timesheet entry",
    status |-> "draft" ]

PageCreateBodies ==
  { Mock, WeekTwoMock,
    With(With(WeekTwoMock, "userId", "user123"), "status", "submitted") }

PageListQueries ==
  { Empty,
    [ userId |-> "user123" ],
    [ userId |-> " user123 " ],
    [ status |-> "draft" ],
    [ weekStart |-> "2024-01-08T00:00:00.000Z" ],
    [ weekEnd |-> "2024-01-07T23:59:59.999Z" ],
    [ userId |-> "user123", status |-> "submitted" ],
    [ limit |-> "1" ],
    [ limit |-> "1", page |-> "2" ],
    [ limit |-> "1", page |-> "3" ],
    [ limit |-> "2", page |-> "1" ],
    [ limit |-> "0" ] }

\* Requests of the single client of SpecStatus: an entry created with each
\* status, an update to each status and to a value that is none.
StatusCreateBodies == { With(Mock, "status", t) : t \in Statuses }

StatusUpdateBodies == { [ status |-> t ] : t \in Statuses \cup {"done"} }

\* ------------------------------------------------------------ the handlers
\* Each handler is given as the response it sends and the collection it
\* leaves, for the collection it finds.
Answer(rsp, st) == [rsp |-> rsp, store |-> st]

\* a lookup that removes what it finds (findByIdAndDelete for findById)
GetByIdResult_Consume(st, id) ==
  IF ValidateId(id) # <<>> THEN Answer(ValidationFailed(ValidateId(id)), st)
  ELSE IF ~IsObjectId(id) THEN Answer(InvalidIdentifier, st)
  ELSE IF id \notin DOMAIN st THEN Answer(NotFound, st)
  ELSE Answer(Success(200, << st[id] >>, ""), Without(st, id))

\* getTimeEntryById behind validate(timeEntrySchemas.getById)
GetByIdResult(st, id) ==
  IF ValidateId(id) # <<>> THEN Answer(ValidationFailed(ValidateId(id)), st)
  ELSE IF ~IsObjectId(id) THEN Answer(InvalidIdentifier, st)
  ELSE IF id \notin DOMAIN st THEN Answer(NotFound, st)
  ELSE Answer(Success(200, << st[id] >>, ""), st)

CreateCheckResult_NoCheck(st, body) ==
  IF ValidateCreate(body) # <<>>
  THEN Answer(ValidationFailed(ValidateCreate(body)), st)
  ELSE Answer(Continue, st)

\* createTimeEntry up to its first await: validate(timeEntrySchemas.create)
\* and TimeEntry.findOne.  "continue" stands for going on to save().
CreateCheckResult(st, body) ==
  IF ValidateCreate(body) # <<>>
  THEN Answer(ValidationFailed(ValidateCreate(body)), st)
  ELSE IF FindOne(st, body.userId, ParseDate(body.weekStart)) # <<>>
  THEN Answer(DuplicateEntry, st)
  ELSE Answer(Continue, st)

\* a catch block without the error.code === 11000 branch
CreateSaveResult_NoDupCatch(st, id, body, now) ==
  LET doc == NewTimeEntry(id, body, now)
  IN IF SchemaErrors(doc) # <<>>
     THEN Answer(ValidationFailed(SchemaErrors(doc)), st)
     ELSE IF KeyHeld(st, doc.userId, doc.weekStart)
     THEN Answer(Failure(500, "Failed to create time entry"), st)
     ELSE Answer(Success(201, << doc >>, "Time entry created successfully"),
                 [ i \in DOMAIN st \cup {id} |-> IF i = id THEN doc ELSE st[i] ])

\* createTimeEntry from new TimeEntry() to the response: save() validates the
\* document, the unique index rejects a held key with code 11000.
CreateSaveResult(st, id, body, now) ==
  LET doc == NewTimeEntry(id, body, now)
  IN IF SchemaErrors(doc) # <<>>
     THEN Answer(ValidationFailed(SchemaErrors(doc)), st)
     ELSE IF KeyHeld(st, doc.userId, doc.weekStart)
     THEN Answer(DuplicateEntry, st)
     ELSE Answer(Success(201, << doc >>, "Time entry created successfully"),
                 [ i \in DOMAIN st \cup {id} |-> IF i = id THEN doc ELSE st[i] ])

\* a catch block without the CastError branch
UpdateResult_NoCastError(st, id, body, now) ==
  IF ValidateUpdate(id, body) # <<>>
  THEN Answer(ValidationFailed(ValidateUpdate(id, body)), st)
  ELSE IF ~IsObjectId(id) THEN Answer(Failure(500, "Failed to update time entry"), st)
  ELSE IF id \notin DOMAIN st THEN Answer(NotFound, st)
  ELSE LET doc == ApplyUpdate(st[id], body, now)
       IN IF SchemaErrors(doc) # <<>>
          THEN Answer(ValidationFailed(SchemaErrors(doc)), st)
          ELSE IF KeyHeldByOther(st, id, doc.userId, doc.weekStart)
          THEN Answer(Failure(500, "Failed to update time entry"), st)
          ELSE Answer(Success(200, << doc >>, "Time entry updated successfully"),
                      [ st EXCEPT ![id] = doc ])

\* an update with { upsert: true }: an id that is not stored is inserted
UpdateResult_Upsert(st, id, body, now) ==
  IF ValidateUpdate(id, body) # <<>>
  THEN Answer(ValidationFailed(ValidateUpdate(id, body)), st)
  ELSE IF ~IsObjectId(id) THEN Answer(InvalidIdentifier, st)
  ELSE LET old == IF id \in DOMAIN st THEN st[id] ELSE NewTimeEntry(id, Mock, now)
           doc == ApplyUpdate(old, body, now)
       IN IF SchemaErrors(doc) # <<>>
          THEN Answer(ValidationFailed(SchemaErrors(doc)), st)
          ELSE IF KeyHeldByOther(st, id, doc.userId, doc.weekStart)
          THEN Answer(Failure(500, "Failed to update time entry"), st)
          ELSE Answer(Success(200, << doc >>, "Time entry updated successfully"),
                      With(st, id, doc))

\* a handler that keeps an approved entry approved
UpdateResult_ApprovedIsFinal(st, id, body, now) ==
  IF ValidateUpdate(id, body) # <<>>
  THEN Answer(ValidationFailed(ValidateUpdate(id, body)), st)
  ELSE IF ~IsObjectId(id) THEN Answer(InvalidIdentifier, st)
  ELSE IF id \notin DOMAIN st THEN Answer(NotFound, st)
  ELSE IF st[id].status = "approved" /\ Get(body, "status", "approved") # "approved"
  THEN Answer(Failure(400, "Invalid status transition"), st)
  ELSE LET doc == ApplyUpdate(st[id], body, now)
       IN IF SchemaErrors(doc) # <<>>
          THEN Answer(ValidationFailed(SchemaErrors(doc)), st)
          ELSE IF KeyHeldByOther(st, id, doc.userId, doc.weekStart)
          THEN Answer(Failure(500, "Failed to update time entry"), st)
          ELSE Answer(Success(200, << doc >>, "Time entry updated successfully"),
                      [ st EXCEPT ![id] = doc ])

\* updateTimeEntry behind validate(timeEntrySchemas.update)
UpdateResult(st, id, body, now) ==
  IF ValidateUpdate(id, body) # <<>>
  THEN Answer(ValidationFailed(ValidateUpdate(id, body)), st)
  ELSE IF ~IsObjectId(id) THEN Answer(InvalidIdentifier, st)
  ELSE IF id \notin DOMAIN st THEN Answer(NotFound, st)
  ELSE LET doc == ApplyUpdate(st[id], body, now)
       IN IF SchemaErrors(doc) # <<>>
          THEN Answer(ValidationFailed(SchemaErrors(doc)), st)
          ELSE IF KeyHeldByOther(st, id, doc.userId, doc.weekStart)
          THEN Answer(Failure(500, "Failed to update time entry"), st)
          ELSE Answer(Success(200, << doc >>, "Time entry updated successfully"),
                      [ st EXCEPT ![id] = doc ])

\* a delete that answers 200 and keeps the document
DeleteResult_Keep(st, id) ==
  IF ValidateId(id) # <<>> THEN Answer(ValidationFailed(ValidateId(id)), st)
  ELSE IF ~IsObjectId(id) THEN Answer(InvalidIdentifier, st)
  ELSE IF id \notin DOMAIN st THEN Answer(NotFound, st)
  ELSE Answer(Success(200, <<>>, "Time entry deleted successfully"), st)

\* deleteTimeEntry behind validate(timeEntrySchemas.getById)
DeleteResult(st, id) ==
  IF ValidateId(id) # <<>> THEN Answer(ValidationFailed(ValidateId(id)), st)
  ELSE IF ~IsObjectId(id) THEN Answer(InvalidIdentifier, st)
  ELSE IF id \notin DOMAIN st THEN Answer(NotFound, st)
  ELSE Answer(Success(200, <<>>, "Time entry deleted successfully"),
              [ i \in DOMAIN st \ {id} |-> st[i] ])

\* a handler without the check of its two parameters
GetForWeekResult_NoCheck(st, query) ==
  IF ParseDate(Get(query, "weekStart", "")) = InvalidDate
  THEN Answer(Failure(500, "Failed to fetch time entry for week"), st)
  ELSE Answer(Success(200, FindOne(st, Get(query, "userId", ""),
                                   ParseDate(query.weekStart)), ""), st)

\* getTimeEntryForWeek (no validation middleware on this route)
GetForWeekResult(st, query) ==
  IF ~(Has(query, "userId") /\ Truthy(query.userId))
     \/ ~(Has(query, "weekStart") /\ Truthy(query.weekStart))
  THEN Answer(MissingParameters, st)
  ELSE IF ParseDate(query.weekStart) = InvalidDate
  THEN Answer(Failure(500, "Failed to fetch time entry for week"), st)
  ELSE Answer(Success(200, FindOne(st, query.userId, ParseDate(query.weekStart)), ""), st)

\* a filter that leaves out the status
Matches_NoStatus(doc, query) ==
  /\ (Has(query, "userId") /\ Truthy(query.userId)) => doc.userId = Trim(query.userId)
  /\ (Has(query, "weekStart") /\ Truthy(query.weekStart))
        => doc.weekStart >= ParseDate(query.weekStart)
  /\ (Has(query, "weekEnd") /\ Truthy(query.weekEnd))
        => doc.weekStart <= ParseDate(query.weekEnd)

\* getTimeEntries: the filter built from req.query, cast through the schema
\* (trim setter on userId)
Matches(doc, query) ==
  /\ (Has(query, "userId") /\ Truthy(query.userId)) => doc.userId = Trim(query.userId)
  /\ (Has(query, "status") /\ Truthy(query.status)) => doc.status = query.status
  /\ (Has(query, "weekStart") /\ Truthy(query.weekStart))
        => doc.weekStart >= ParseDate(query.weekStart)
  /\ (Has(query, "weekEnd") /\ Truthy(query.weekEnd))
        => doc.weekStart <= ParseDate(query.weekEnd)

Limit(query) == IF Has(query, "limit") THEN ToNumber(query.limit) ELSE 50
Page(query) == IF Has(query, "page") THEN ToNumber(query.page) ELSE 1

Min(a, b) == IF a < b THEN a ELSE b

\* find(query).sort({ weekStart: -1 }): every order the sort allows (the
\* order of documents with equal weekStart is up to the store)
SortedFinds(st, query) ==
  LET hits == { id \in DOMAIN st : Matches(st[id], query) }
      n == Cardinality(hits)
  IN { [ i \in 1..n |-> st[f[i]] ] :
         f \in { g \in [1..n -> hits] :
                   /\ \A i, j \in 1..n : i # j => g[i] # g[j]
                   /\ \A i, j \in 1..n :
                        i < j => st[g[i]].weekStart >= st[g[j]].weekStart } }

\* a page that always starts at the first entry
PageOf_NoSkip(sorted, query) ==
  SubSeq(sorted, 1, Min(Limit(query), Len(sorted)))

\* .skip(skip).limit(limit)
PageOf(sorted, query) ==
  LET skip == (Page(query) - 1) * Limit(query)
  IN SubSeq(sorted, skip + 1, Min(skip + Limit(query), Len(sorted)))

CountDocuments(st, query) ==
  Cardinality({ id \in DOMAIN st : Matches(st[id], query) })

\* the response of getTimeEntries, from the page and the count it awaited
ListResponse(query, timeEntries, total) ==
  [ status |-> 200, success |-> TRUE, error |-> "", details |-> <<>>,
    data |-> timeEntries, message |-> "",
    pagination |-> [ page |-> Page(query), limit |-> Limit(query),
                     total |-> total,
                     pages |-> (total + Limit(query) - 1) \div Limit(query) ] ]

\* ------------------------------------------------------------- the router
\* a router that registers '/:id' before '/week'
RouteGet_IdFirst(segment) == "getById"

\* The GET routes with one path segment, in the order the router registers
\* them: '/week', then '/:id'.  The first route that matches handles the
\* request.
RouteGet(segment) == IF segment = "week" THEN "getForWeek" ELSE "getById"

\* ------------------------------------------------- config/database.ts
\* global.mongoose = { conn: null, promise: null }
NoConn == "null"
NoPromise == 0

\* what mongoose.connect() resolves to: the mongoose module itself
Mongoose == "mongoose"

\* the attempts whose promise is not settled
Outstanding(as) == { n \in 1..Len(as) : as[n].state = "pending" }

\* the jobs that resume the callers awaiting a promise, in the order of
\* their awaits
ResumeJobs(waiters) == [ i \in 1..Len(waiters) |-> [kind |-> "resume", who |-> waiters[i]] ]

\* ------------------------------------------------------------------ steps
Init ==
  /\ store = Empty
  /\ nextId = 0
  /\ pc = [p \in Procs |-> "idle"]
  /\ req = [p \in Procs |-> NoReq]
  /\ out = [req |-> NoReq, rsp |-> Continue]
  /\ deleted = {}
  /\ nUpdates = 0
  /\ cached = [conn |-> NoConn, promise |-> NoPromise]
  /\ attempts = << >>
  /\ tasks = << >>
  /\ call = [c \in Callers |-> [at |-> "idle", on |-> NoPromise, got |-> "none"]]

\* a handler that returns without sending anything
Respond_Silent(p, request, rsp) == UNCHANGED out

\* res.status(...).json(...) / res.json(...): the one response of a request
Respond(p, request, rsp) == out' = [req |-> request, rsp |-> rsp]

\* GET /:id
GetTimeEntryById(p, id) ==
  /\ pc[p] = "idle"
  /\ RouteGet(id) = "getById"
  /\ Respond(p, [op |-> "getById", id |-> id], GetByIdResult(store, id).rsp)
  /\ store' = GetByIdResult(store, id).store
  /\ UNCHANGED << nextId, pc, req, deleted, nUpdates >>
  /\ UNCHANGED dbVars

\* POST /: validation and the existence check
CreateTimeEntry(p, body) ==
  /\ pc[p] = "idle"
  /\ nextId + Cardinality({ q \in Procs : pc[q] = "save" }) < MaxIds
  /\ LET r == CreateCheckResult(store, body)
     IN IF r.rsp = Continue
        THEN /\ pc' = [pc EXCEPT ![p] = "save"]
             /\ req' = [req EXCEPT ![p] = [op |-> "create", body |-> body]]
             /\ UNCHANGED out
        ELSE /\ Respond(p, [op |-> "create", body |-> body], r.rsp)
             /\ UNCHANGED << pc, req >>
  /\ UNCHANGED << store, nextId, deleted, nUpdates >>
  /\ UNCHANGED dbVars

\* POST /: new TimeEntry(), save() and the response
CreateTimeEntrySave(p) ==
  /\ pc[p] = "save"
  /\ \E now \in Clock :
       LET r == CreateSaveResult(store, NewObjectId(nextId, store), req[p].body, now)
       IN /\ store' = r.store
          /\ Respond(p, req[p], r.rsp)
  /\ nextId' = nextId + 1
  /\ pc' = [pc EXCEPT ![p] = "idle"]
  /\ req' = [req EXCEPT ![p] = NoReq]
  /\ UNCHANGED << deleted, nUpdates >>
  /\ UNCHANGED dbVars

\* PUT /:id
UpdateTimeEntry(p, id, body) ==
  /\ pc[p] = "idle"
  /\ \E now \in Clock :
       LET r == UpdateResult(store, id, body, now)
       IN /\ r.rsp.status = 200 => nUpdates < MaxUpdates
          /\ store' = r.store
          /\ nUpdates' = IF r.rsp.status = 200 THEN nUpdates + 1 ELSE nUpdates
          /\ Respond(p, [op |-> "update", id |-> id, body |-> body], r.rsp)
  /\ UNCHANGED << nextId, pc, req, deleted >>
  /\ UNCHANGED dbVars

\* DELETE /:id
DeleteTimeEntry(p, id) ==
  /\ pc[p] = "idle"
  /\ LET r == DeleteResult(store, id)
     IN /\ store' = r.store
        /\ deleted' = IF r.rsp.status = 200 THEN deleted \cup {id} ELSE deleted
        /\ Respond(p, [op |-> "delete", id |-> id], r.rsp)
  /\ UNCHANGED << nextId, pc, req, nUpdates >>
  /\ UNCHANGED dbVars

\* GET /week
GetTimeEntryForWeek(p, query) ==
  /\ pc[p] = "idle"
  /\ RouteGet("week") = "getForWeek"
  /\ Respond(p, [op |-> "getForWeek", query |-> query],
             GetForWeekResult(store, query).rsp)
  /\ store' = GetForWeekResult(store, query).store
  /\ UNCHANGED << nextId, pc, req, deleted, nUpdates >>
  /\ UNCHANGED dbVars

\* GET /: validation and the find() of the page
GetTimeEntries(p, query) ==
  /\ pc[p] = "idle"
  /\ IF ValidateList(query) # <<>>
     THEN /\ Respond(p, [op |-> "list", query |-> query],
                     ValidationFailed(ValidateList(query)))
          /\ UNCHANGED << pc, req >>
     ELSE /\ \E sorted \in SortedFinds(store, query) :
               req' = [req EXCEPT ![p] =
                         [op |-> "list", query |-> query,
                          timeEntries |-> PageOf(sorted, query)]]
          /\ pc' = [pc EXCEPT ![p] = "count"]
          /\ UNCHANGED out
  /\ UNCHANGED << store, nextId, deleted, nUpdates >>
  /\ UNCHANGED dbVars

\* GET /: countDocuments() and the response
GetTimeEntriesCount(p) ==
  /\ pc[p] = "count"
  /\ Respond(p, [op |-> "list", query |-> req[p].query],
             ListResponse(req[p].query, req[p].timeEntries,
                          CountDocuments(store, req[p].query)))
  /\ pc' = [pc EXCEPT ![p] = "idle"]
  /\ req' = [req EXCEPT ![p] = NoReq]
  /\ UNCHANGED << store, nextId, deleted, nUpdates >>
  /\ UNCHANGED dbVars

\* concurrent clients writing and reading single entries
Next ==
  \E p \in Procs :
    \/ \E id \in IdParams : GetTimeEntryById(p, id)
    \/ \E body \in CreateBodies : CreateTimeEntry(p, body)
    \/ CreateTimeEntrySave(p)
    \/ \E id \in IdParams, body \in UpdateBodies : UpdateTimeEntry(p, id, body)
    \/ \E id \in IdParams : DeleteTimeEntry(p, id)
    \/ \E query \in WeekQueries : GetTimeEntryForWeek(p, query)

Spec == Init /\ [][Next]_vars

\* one client, one request at a time, every handler
NextFields ==
  \/ \E id \in IdParams \cup {"week"} : GetTimeEntryById(1, id)
  \/ \E body \in FieldCreateBodies : CreateTimeEntry(1, body)
  \/ CreateTimeEntrySave(1)
  \/ \E id \in IdParams, body \in FieldUpdateBodies : UpdateTimeEntry(1, id, body)
  \/ \E id \in IdParams : DeleteTimeEntry(1, id)
  \/ \E query \in FieldWeekQueries : GetTimeEntryForWeek(1, query)
  \/ \E query \in FieldListQueries : GetTimeEntries(1, query)
  \/ GetTimeEntriesCount(1)

SpecFields == Init /\ [][NextFields]_vars

\* the same client against a store that answers every call: a handler
\* suspended at an await is resumed
LiveFields ==
  /\ Init /\ [][NextFields]_vars
  /\ WF_vars(CreateTimeEntrySave(1))
  /\ WF_vars(GetTimeEntriesCount(1))

\* concurrent clients creating, deleting and reading
NextList ==
  \E p \in Procs :
    \/ \E id \in IdParams : GetTimeEntryById(p, id)
    \/ \E body \in ListCreateBodies : CreateTimeEntry(p, body)
    \/ CreateTimeEntrySave(p)
    \/ \E id \in IdParams : DeleteTimeEntry(p, id)
    \/ \E query \in WeekQueries : GetTimeEntryForWeek(p, query)
    \/ \E query \in ListQueries : GetTimeEntries(p, query)
    \/ GetTimeEntriesCount(p)

SpecList == Init /\ [][NextList]_vars

\* one client creating, deleting and listing, one request at a time
NextPages ==
  \/ \E body \in PageCreateBodies : CreateTimeEntry(1, body)
  \/ CreateTimeEntrySave(1)
  \/ \E id \in IdParams : DeleteTimeEntry(1, id)
  \/ \E query \in PageListQueries : GetTimeEntries(1, query)
  \/ GetTimeEntriesCount(1)

SpecPages == Init /\ [][NextPages]_vars

\* one client creating an entry and changing its status
NextStatus ==
  \/ \E id \in IdParams : GetTimeEntryById(1, id)
  \/ \E body \in StatusCreateBodies : CreateTimeEntry(1, body)
  \/ CreateTimeEntrySave(1)
  \/ \E id \in IdParams, body \in StatusUpdateBodies : UpdateTimeEntry(1, id, body)
  \/ \E id \in IdParams : DeleteTimeEntry(1, id)

SpecStatus == Init /\ [][NextStatus]_vars

\* a call of connectDB is put on the job queue: by the module body of
\* app.ts, or by any other code that imports connectDB
Schedule(c) ==
  /\ call[c].at = "idle"
  /\ call' = [call EXCEPT ![c] = [at |-> "queued", on |-> NoPromise, got |-> "none"]]
  /\ tasks' = Append(tasks, [kind |-> "call", who |-> c])
  /\ UNCHANGED << cached, attempts >>
  /\ UNCHANGED apiVars

\* connectDB() up to its await: the cached connection is returned, or the
\* cached promise is awaited, after mongoose.connect() when there is none.
\* Awaiting a settled promise queues the resumption at once.
ConnectDB(c) ==
  /\ tasks # << >>
  /\ Head(tasks) = [kind |-> "call", who |-> c]
  /\ IF cached.conn # NoConn
     THEN /\ call' = [call EXCEPT ![c] =
                        [at |-> "idle", on |-> NoPromise, got |-> cached.conn]]
          /\ tasks' = Tail(tasks)
          /\ UNCHANGED << cached, attempts >>
     ELSE IF cached.promise = NoPromise
     THEN /\ Len(attempts) < MaxAttempts
          /\ attempts' = Append(attempts, [state |-> "pending", waiters |-> << c >>])
          /\ cached' = [cached EXCEPT !.promise = Len(attempts) + 1]
          /\ call' = [call EXCEPT ![c] =
                        [at |-> "await", on |-> Len(attempts) + 1, got |-> "none"]]
          /\ tasks' = Tail(tasks)
     ELSE /\ call' = [call EXCEPT ![c] =
                        [at |-> "await", on |-> cached.promise, got |-> "none"]]
          /\ IF attempts[cached.promise].state = "pending"
             THEN /\ attempts' = [attempts EXCEPT
                                    ![cached.promise].waiters = Append(@, c)]
                  /\ tasks' = Tail(tasks)
             ELSE /\ tasks' = Append(Tail(tasks), [kind |-> "resume", who |-> c])
                  /\ UNCHANGED attempts
          /\ UNCHANGED cached
  /\ UNCHANGED apiVars

\* mongoose.connect() succeeds: its promise is fulfilled, the callers
\* awaiting it are queued for resumption
Connected(n) ==
  /\ n \in Outstanding(attempts)
  /\ attempts' = [attempts EXCEPT ![n] = [state |-> "resolved", waiters |-> << >>]]
  /\ tasks' = tasks \o ResumeJobs(attempts[n].waiters)
  /\ UNCHANGED << cached, call >>
  /\ UNCHANGED apiVars

\* mongoose.connect() fails: its promise is rejected
ConnectFailed(n) ==
  /\ n \in Outstanding(attempts)
  /\ attempts' = [attempts EXCEPT ![n] = [state |-> "rejected", waiters |-> << >>]]
  /\ tasks' = tasks \o ResumeJobs(attempts[n].waiters)
  /\ UNCHANGED << cached, call >>
  /\ UNCHANGED apiVars

\* connectDB() after its await: cached.conn is set and returned, or the
\* catch block clears cached.promise and rethrows
Resume(c) ==
  /\ tasks # << >>
  /\ Head(tasks) = [kind |-> "resume", who |-> c]
  /\ tasks' = Tail(tasks)
  /\ IF attempts[call[c].on].state = "resolved"
     THEN /\ cached' = [cached EXCEPT !.conn = Mongoose]
          /\ call' = [call EXCEPT ![c] =
                        [at |-> "idle", on |-> NoPromise, got |-> Mongoose]]
     ELSE /\ cached' = [cached EXCEPT !.promise = NoPromise]
          /\ call' = [call EXCEPT ![c] =
                        [at |-> "idle", on |-> NoPromise, got |-> "error"]]
  /\ UNCHANGED attempts
  /\ UNCHANGED apiVars

\* callers of connectDB on one event loop
NextConnect ==
  \/ \E c \in Callers :
       \/ Schedule(c)
       \/ ConnectDB(c)
       \/ Resume(c)
  \/ \E n \in 1..MaxAttempts :
       \/ Connected(n)
       \/ ConnectFailed(n)

SpecConnect == Init /\ [][NextConnect]_vars

\* ----------------------------------------------------------------- claims
\* a request of kind op is answered in this step
Answered(op) ==
  /\ out'.req.op = op
  /\ (out' # out \/ \E p \in Procs : pc[p] # "idle" /\ pc'[p] = "idle")

\* the (userId, weekStart) pair a request body names, as the store keeps it
HoldsKeyOf(st, body) == KeyHeld(st, Trim(body.userId), ParseDate(body.weekStart))

\* C1: in every reachable state of the collection, whatever Creates, Updates
\* and Deletes were interleaved, no two entries share (userId, weekStart).
C1_UniquePerUserWeek ==
  \A i, j \in DOMAIN store :
    (store[i].userId = store[j].userId /\ store[i].weekStart = store[j].weekStart)
      => i = j

\* an Update that moved an entry onto the key of another one was refused
C1_Witness ==
  /\ Cardinality(DOMAIN store) = 2
  /\ out.req.op = "update"
  /\ out.rsp.status = 500

\* C2: a valid Create whose (userId, weekStart) is held by an entry is answered
\* 400 'Time entry already exists for this week' and leaves the collection as
\* it was; when the entry is there at the existence check, no save is attempted.
C2_DuplicateCreateRefused ==
  [][ /\ ( /\ Answered("create")
           /\ ValidateCreate(out'.req.body) = <<>>
           /\ HoldsKeyOf(store, out'.req.body) )
        => (out'.rsp = DuplicateEntry /\ store' = store)
      /\ \A p \in Procs :
           (pc[p] = "idle" /\ pc'[p] = "save")
             => ~HoldsKeyOf(store, req'[p].body) ]_vars

\* the duplicate of the API test: same user and week as a stored entry,
\* answered at the existence check without generating an id
C2_Witness ==
  /\ out.req.op = "create"
  /\ out.rsp = DuplicateEntry
  /\ nextId = 1
  /\ Cardinality(DOMAIN store) = 1
  /\ \A p \in Procs : pc[p] = "idle"

\* C3: when a Create reaches save() (it passed the existence check), the write
\* is answered 201 and persisted if no entry holds its key at that moment, and
\* otherwise rejected by the unique index, answered DuplicateEntry (400, never
\* 500) with the collection unchanged; so of two racing Creates of one key one
\* is persisted and the other is a DuplicateEntry.
C3_RaceResolvedAsDuplicate ==
  [][ \A p \in Procs :
        (pc[p] = "save" /\ pc'[p] = "idle")
          => IF HoldsKeyOf(store, req[p].body)
             THEN out'.rsp = DuplicateEntry /\ store' = store
             ELSE /\ out'.rsp.status = 201
                  /\ Cardinality(DOMAIN store') = Cardinality(DOMAIN store) + 1
                  /\ HoldsKeyOf(store', req[p].body) ]_vars

\* two saves ran, nothing was deleted or updated, one entry is stored and the
\* last answer is the DuplicateEntry of the loser
C3_Witness ==
  /\ nextId = 2
  /\ deleted = {}
  /\ nUpdates = 0
  /\ Cardinality(DOMAIN store) = 1
  /\ out.req.op = "create"
  /\ out.rsp = DuplicateEntry

\* C4: a valid Create is refused only if an entry holds its (userId, weekStart)
\* when it is answered, so Creates of pairwise distinct pairs all succeed; the
\* id a 201 returns was never returned before (it is neither the id of a stored
\* entry nor of a deleted one).
C4_DistinctCreatesSucceed ==
  [][ ( /\ Answered("create")
        /\ ValidateCreate(out'.req.body) = <<>> )
      => /\ ~HoldsKeyOf(store, out'.req.body) => out'.rsp.status = 201
         /\ out'.rsp.status = 201 =>
              /\ Len(out'.rsp.data) = 1
              /\ out'.rsp.data[1]._id \notin DOMAIN store \cup deleted
              /\ out'.rsp.data[1]._id \in DOMAIN store' ]_vars

\* two entries with distinct pairs, the second create just answered
C4_Witness ==
  /\ out.req.op = "create"
  /\ out.rsp.status = 201
  /\ Cardinality(DOMAIN store) = 2

\* the step a GetById of the id just returned by a 201 is answered in: no
\* request was answered, so nothing was written, in between
RoundTrip ==
  /\ out.req.op = "create"
  /\ out.rsp.status = 201
  /\ Answered("getById")
  /\ out'.req.id = out.rsp.data[1]._id

\* the fields of the create schema that body supplies are those of doc, dates
\* compared as instants, omitted notes and status defaulted
SuppliedExactly(body, doc) ==
  /\ doc.userId = body.userId
  /\ doc.weekStart = ParseDate(body.weekStart)
  /\ doc.weekEnd = ParseDate(body.weekEnd)
  /\ doc.hours = body.hours
  /\ doc.notes = Get(body, "notes", "")
  /\ doc.status = Get(body, "status", "draft")

SuppliedTrimmed(body, doc) ==
  /\ doc.userId = Trim(body.userId)
  /\ doc.weekStart = ParseDate(body.weekStart)
  /\ doc.weekEnd = ParseDate(body.weekEnd)
  /\ doc.hours = body.hours
  /\ doc.notes = Trim(Get(body, "notes", ""))
  /\ doc.status = Get(body, "status", "draft")

\* C5 as stated: GetById of the id a successful Create returned, with no write
\* in between, returns every supplied field exactly as supplied, status draft
\* and notes "" when omitted.
C5_RoundTripExact ==
  [][ RoundTrip
      => /\ out'.rsp.status = 200
         /\ Len(out'.rsp.data) = 1
         /\ SuppliedExactly(out.req.body, out'.rsp.data[1]) ]_vars

\* C5 as amended: GetById of the id a successful Create returned, with no
\* write in between, returns every supplied field as supplied except that
\* userId and notes come back without their leading and trailing whitespace;
\* status is draft and notes "" when omitted.
C5_RoundTripTrimmed ==
  [][ RoundTrip
      => /\ out'.rsp.status = 200
         /\ Len(out'.rsp.data) = 1
         /\ SuppliedTrimmed(out.req.body, out'.rsp.data[1]) ]_vars

\* the entry created from " user123 " and " padded note " was read back
C5_Witness ==
  /\ out.req.op = "getById"
  /\ out.rsp.status = 200
  /\ out.rsp.data[1].notes = "padded note"
  /\ out.rsp.data[1].status = "draft"
  /\ out.rsp.data[1].createdAt = out.rsp.data[1].updatedAt

\* C6: a successful Update with status submitted and no submittedAt returns a
\* stamped (non-null) submittedAt; a successful Update that supplies
\* submittedAt returns and stores exactly the supplied instant.
C6_UpdateSubmittedAt ==
  [][ (Answered("update") /\ out'.rsp.status = 200)
      => LET body == out'.req.body
             doc == out'.rsp.data[1]
         IN /\ ( /\ Has(body, "status") /\ body.status = "submitted"
                 /\ ~Has(body, "submittedAt") )
              => doc.submittedAt \in Clock
            /\ Has(body, "submittedAt")
              => /\ doc.submittedAt = ParseDate(body.submittedAt)
                 /\ store'[out'.req.id].submittedAt = ParseDate(body.submittedAt) ]_vars

\* C7: a Create answered 201 whose body has no submittedAt yields an entry
\* stamped with the current time if its status is submitted, and an entry
\* without submittedAt if its status is anything else or omitted.
C7_CreateStamp ==
  [][ ( /\ Answered("create")
        /\ out'.rsp.status = 201
        /\ ~Has(out'.req.body, "submittedAt") )
      => LET body == out'.req.body
             doc == out'.rsp.data[1]
         IN /\ store'[doc._id] = doc
            /\ IF Has(body, "status") /\ body.status = "submitted"
               THEN doc.submittedAt \in Clock
               ELSE doc.submittedAt = NoDate ]_vars

C7_Witness ==
  /\ out.req.op = "create"
  /\ out.rsp.status = 201
  /\ ~Has(out.req.body, "submittedAt")
  /\ out.req.body.status = "submitted"
  /\ out.rsp.data[1].submittedAt \in Clock

\* the value the schema stores for a supplied field
Stored(f, v) ==
  IF f \in {"weekStart", "weekEnd", "approvedAt", "submittedAt"} THEN ParseDate(v)
  ELSE IF f \in {"userId", "notes", "approvedBy"} THEN Trim(v)
  ELSE v

C9_DeletedStaysDeleted ==
  [][ /\ deleted' \cap DOMAIN store' = {}
      /\ (Answered("getById") /\ out'.req.id \in deleted) => out'.rsp = NotFound
      /\ (Answered("delete") /\ out'.req.id \in deleted) => out'.rsp = NotFound
      /\ Answered("getForWeek")
           => \A i \in 1..Len(out'.rsp.data) : out'.rsp.data[i]._id \notin deleted
      /\ \A p \in Procs :
           (pc[p] = "idle" /\ pc'[p] = "count")
             => \A i \in 1..Len(req'[p].timeEntries) :
                  req'[p].timeEntries[i]._id \notin deleted ]_vars

\* the id deleted earlier was looked up again
C9_Witness ==
  /\ out.req.op \in {"getById", "delete"}
  /\ out.req.id \in deleted
  /\ out.rsp = NotFound

\* C10: a GetById, Update or Delete that passes the validation layer with an
\* id that is no ObjectId is answered 400 'Invalid time entry ID', with an
\* ObjectId that no entry has it is answered 404 'Time entry not found'; in
\* both cases the collection is left as it was.
C10_InvalidVersusNotFound ==
  [][ \A op \in {"getById", "update", "delete"} :
        ( /\ Answered(op)
          /\ op = "update" => ValidateUpdate(out'.req.id, out'.req.body) = <<>> )
        => /\ ~IsObjectId(out'.req.id)
                => (out'.rsp = InvalidIdentifier /\ store' = store)
           /\ (IsObjectId(out'.req.id) /\ out'.req.id \notin DOMAIN store)
                => (out'.rsp = NotFound /\ store' = store) ]_vars

\* an Update of a malformed id was answered, with entries in the collection
C10_Witness ==
  /\ out.req.op = "update"
  /\ out.req.id = "invalid-id"
  /\ out.rsp = InvalidIdentifier
  /\ store # Empty

\* the violations of the schema bound to the operation of a request
SchemaViolations(request) ==
  CASE request.op = "create" -> CreateBodyErrors(request.body)
    [] request.op = "update" ->
         UpdateBodyErrors(request.body) \o IdParamErrors(request.id)
    [] request.op \in {"getById", "delete"} -> IdParamErrors(request.id)
    [] request.op = "list" -> ListQueryErrors(request.query)
    [] OTHER -> <<>>

\* C11: a request that violates the schema bound to its operation is answered
\* 400 'Validation failed' by the validation layer, with details that depend
\* on the request alone; its handler never runs: the request is never
\* suspended at a store call, and the collection, the id counter and the
\* requests in flight are as before.
C11_InvalidNeverHandled ==
  [][ /\ \A op \in {"create", "update", "getById", "delete", "list"} :
           (Answered(op) /\ SchemaViolations(out'.req) # <<>>)
             => /\ out'.rsp.status = 400
                /\ out'.rsp.success = FALSE
                /\ out'.rsp.error = "Validation failed"
                /\ out'.rsp.details = SchemaViolations(out'.req)
                /\ UNCHANGED << store, nextId, pc, req, deleted, nUpdates >>
      /\ \A p \in Procs :
           (pc[p] = "idle" /\ pc'[p] # "idle")
             => SchemaViolations(req'[p]) = <<>> ]_vars

\* an Update of a stored entry was refused by the validation layer
C11_Witness ==
  /\ out.req.op = "update"
  /\ out.req.id \in DOMAIN store
  /\ SchemaViolations(out.req) # <<>>
  /\ out.rsp.error = "Validation failed"
  /\ out.rsp.status = 400

Range(seq) == { seq[i] : i \in 1..Len(seq) }

\* the message of every rule of the operation's schema that the request
\* violates, rule by rule
RuleMessages(request) ==
  CASE request.op = "create" ->
         UNION { Range(JoiRequired(request.body, f)) :
                   f \in {"userId", "weekStart", "weekEnd", "hours"} }
         \cup UNION { Range(JoiDate(request.body, f)) : f \in {"weekStart", "weekEnd"} }
         \cup Range(JoiStringTrimmed(request.body, "userId"))
         \cup Range(JoiHours(request.body))
         \cup Range(JoiString(request.body, "notes"))
         \cup Range(JoiStatus(request.body))
    [] request.op = "update" ->
         UNION { Range(JoiDate(request.body, f)) :
                   f \in {"weekStart", "weekEnd", "submittedAt", "approvedAt"} }
         \cup UNION { Range(JoiStringTrimmed(request.body, f)) :
                        f \in {"userId", "approvedBy"} }
         \cup Range(JoiHours(request.body))
         \cup Range(JoiString(request.body, "notes"))
         \cup Range(JoiStatus(request.body))
         \cup Range(IdParamErrors(request.id))
    [] request.op = "list" ->
         UNION { Range(JoiDate(request.query, f)) : f \in {"weekStart", "weekEnd"} }
         \cup Range(JoiString(request.query, "userId"))
         \cup Range(JoiStatus(request.query))
         \cup Range(JoiIntRange(request.query, "limit", 1, 100))
         \cup Range(JoiIntRange(request.query, "page", 1, NaN))
    [] OTHER -> Range(IdParamErrors(request.id))

\* C12: the details of a 'Validation failed' answer of the validation layer
\* hold the message of every rule the request violates, each once and no
\* other, the messages of the body before those of the query before those of
\* the path parameters.
C12_AllViolationsReported ==
  [][ \A op \in {"create", "update", "getById", "delete", "list"} :
        (Answered(op) /\ SchemaViolations(out'.req) # <<>>)
          => /\ Range(out'.rsp.details) = RuleMessages(out'.req)
             /\ Len(out'.rsp.details) = Cardinality(RuleMessages(out'.req))
             /\ out'.rsp.details = SchemaViolations(out'.req) ]_vars

\* a Create without userId and with a malformed weekStart got both messages
C12_Witness ==
  /\ out.req.op = "create"
  /\ out.rsp.error = "Validation failed"
  /\ out.rsp.details = << "\"userId\" is required", "\"weekStart\" must be a valid date" >>

\* seven numbers, each from 0 to 24
SevenDayHours(hours) ==
  Len(hours) = 7 /\ \A i \in 1..Len(hours) : 0 <= hours[i] /\ hours[i] <= 24

\* the key the entry id would hold after an update with body
KeyAfter(st, id, body) ==
  << IF Has(body, "userId") THEN Trim(body.userId) ELSE st[id].userId,
     IF Has(body, "weekStart") THEN ParseDate(body.weekStart) ELSE st[id].weekStart >>

\* C13: a Create or an Update that carries an hours sequence which is not
\* seven numbers from 0 to 24 is answered 400 'Validation failed' and leaves
\* the collection as it was; one that carries seven numbers from 0 to 24
\* succeeds and stores the sequence, when the request is otherwise valid and
\* the Create is no duplicate, the Update names a stored entry whose key it
\* does not move onto another entry.
C13_HoursAcceptedIffSevenInRange ==
  [][ \A op \in {"create", "update"} :
        (Answered(op) /\ Has(out'.req.body, "hours"))
          => LET body == out'.req.body
             IN IF ~SevenDayHours(body.hours)
                THEN /\ out'.rsp.status = 400
                     /\ out'.rsp.error = "Validation failed"
                     /\ out'.rsp.details # <<>>
                     /\ store' = store
                ELSE IF op = "create"
                THEN (CreateBodyErrors(body) = <<>> /\ ~HoldsKeyOf(store, body))
                       => /\ out'.rsp.status = 201
                          /\ store'[out'.rsp.data[1]._id].hours = body.hours
                ELSE ( /\ UpdateBodyErrors(body) = <<>>
                       /\ out'.req.id \in DOMAIN store
                       /\ LET k == KeyAfter(store, out'.req.id, body)
                          IN ~KeyHeldByOther(store, out'.req.id, k[1], k[2]) )
                       => /\ out'.rsp.status = 200
                          /\ store'[out'.req.id].hours = body.hours ]_vars

\* an Update replaced the hours of a stored entry by another valid sequence
C13_Witness ==
  /\ out.req.op = "update"
  /\ out.rsp.status = 200
  /\ Has(out.req.body, "hours")
  /\ store[out.req.id].hours = <<0, 0, 0, 0, 0, 24, 24>>
  /\ store[out.req.id].userId = "user123"

\* a Create with seven items, one negative and one above 24, was refused
C13_WitnessRefused ==
  /\ out.req.op = "create"
  /\ Has(out.req.body, "hours")
  /\ Len(out.req.body.hours) = 7
  /\ out.rsp.error = "Validation failed"
  /\ Len(out.rsp.details) = 2

\* the keys named by the body schema of Create and of Update
CreateKeys == { "userId", "weekStart", "weekEnd", "hours", "notes", "status" }
UpdateKeys == CreateKeys \cup { "submittedAt", "approvedAt", "approvedBy" }

Restrict(r, keys) == [ f \in DOMAIN r \cap keys |-> r[f] ]

\* C14: a field of a Create or Update body that its schema does not name is
\* dropped: the answer and the collection left behind are those of the same
\* request without that field.
C14_UnknownFieldsDropped ==
  [][ /\ Answered("update")
           => \E now \in Clock :
                Answer(out'.rsp, store')
                  = UpdateResult(store, out'.req.id,
                                 Restrict(out'.req.body, UpdateKeys), now)
      /\ \A p \in Procs :
           (pc[p] = "save" /\ pc'[p] = "idle")
             => \E now \in Clock :
                  Answer(out'.rsp, store')
                    = CreateSaveResult(store, NewObjectId(nextId, store),
                                       Restrict(req[p].body, CreateKeys), now)
      /\ (Answered("create") /\ \A p \in Procs : pc[p] = pc'[p])
           => out'.rsp = CreateCheckResult(store, Restrict(out'.req.body, CreateKeys)).rsp
    ]_vars

\* C14 for the fields that neither schema names: a field of a Create or Update
\* body that is a key of neither the request schema nor an update operator is
\* dropped.
C14_PlainUnknownFieldsDropped ==
  [][ (Answered("update") /\ ~Has(out'.req.body, "$set"))
        => \E now \in Clock :
             Answer(out'.rsp, store')
               = UpdateResult(store, out'.req.id,
                              Restrict(out'.req.body, UpdateKeys), now) ]_vars

\* doc satisfies every filter present in query, userId compared with the
\* filter as sent
SatisfiesFilters(doc, query) ==
  /\ Has(query, "userId") => doc.userId = query.userId
  /\ Has(query, "status") => doc.status = query.status
  /\ Has(query, "weekStart") => doc.weekStart >= ParseDate(query.weekStart)
  /\ Has(query, "weekEnd") => doc.weekStart <= ParseDate(query.weekEnd)

\* the same with userId compared with the filter without its leading and
\* trailing whitespace
SatisfiesTrimmedFilters(doc, query) ==
  /\ Has(query, "userId") => doc.userId = Trim(query.userId)
  /\ Has(query, "status") => doc.status = query.status
  /\ Has(query, "weekStart") => doc.weekStart >= ParseDate(query.weekStart)
  /\ Has(query, "weekEnd") => doc.weekStart <= ParseDate(query.weekEnd)

\* a List of one client answered 200 with the default page, which holds
\* every match
ListedAll ==
  /\ Answered("list")
  /\ out'.rsp.status = 200
  /\ ~Has(out'.req.query, "limit")
  /\ ~Has(out'.req.query, "page")

\* C15 as stated: List returns an entry if and only if it satisfies every
\* filter present (userId equal, status equal, weekStart >= the weekStart
\* filter, weekStart <= the weekEnd filter); with no filter it returns every
\* stored entry.
C15_ListMatchesFilters ==
  [][ ListedAll
      => /\ Range(out'.rsp.data)
              = { store[id] : id \in { i \in DOMAIN store :
                                         SatisfiesFilters(store[i], out'.req.query) } }
         /\ out'.req.query = Empty => Len(out'.rsp.data) = Cardinality(DOMAIN store)
    ]_vars

\* C15 as amended: List returns an entry if and only if it satisfies every
\* filter present, where the userId filter is compared without its leading
\* and trailing whitespace (status equal, weekStart >= the weekStart filter,
\* weekStart <= the weekEnd filter); with no filter it returns every stored
\* entry.
C15_ListMatchesTrimmedFilters ==
  [][ ListedAll
      => /\ Range(out'.rsp.data)
              = { store[id] : id \in { i \in DOMAIN store :
                                         SatisfiesTrimmedFilters(store[i], out'.req.query) } }
         /\ out'.req.query = Empty => Len(out'.rsp.data) = Cardinality(DOMAIN store)
    ]_vars

\* the filter scenario of the API tests: of the entries of user123 and
\* user456, List by userId user123 returned exactly the first
C15_Witness ==
  /\ out.req.op = "list"
  /\ out.req.query = [ userId |-> "user123" ]
  /\ Cardinality(DOMAIN store) = 2
  /\ \E id \in DOMAIN store : store[id].userId = "user456"
  /\ Len(out.rsp.data) = 1
  /\ out.rsp.data[1].userId = "user123"

\* the sequences that hold every element of docs once, latest weekStart first
DescendingOrders(docs) ==
  { f \in [ 1..Cardinality(docs) -> docs ] :
      /\ \A i, j \in 1..Cardinality(docs) : i # j => f[i] # f[j]
      /\ \A i, j \in 1..Cardinality(docs) : i < j => f[i].weekStart >= f[j].weekStart }

\* what is left of seq after its first skip elements, cut to at most limit
Slice(seq, skip, limit) ==
  [ i \in 1..(IF Len(seq) - skip < 0 THEN 0
              ELSE IF Len(seq) - skip < limit THEN Len(seq) - skip ELSE limit)
      |-> seq[skip + i] ]

\* C16: a List answered to a single client (no write between its two store
\* queries) returns the matching entries by weekStart descending, without the
\* first (page-1)*limit of them and at most limit of them, with total = the
\* number of all matching entries and pages = ceil(total/limit); limit is 50
\* and page is 1 when omitted.
C16_SortedPage ==
  [][ (Answered("list") /\ out'.rsp.status = 200)
      => LET query == out'.req.query
             limit == IF Has(query, "limit") THEN ToNumber(query.limit) ELSE 50
             page == IF Has(query, "page") THEN ToNumber(query.page) ELSE 1
             found == { store[i] : i \in { j \in DOMAIN store :
                                            SatisfiesTrimmedFilters(store[j], query) } }
             pg == out'.rsp.pagination
         IN /\ \E order \in DescendingOrders(found) :
                 out'.rsp.data = Slice(order, (page - 1) * limit, limit)
            /\ pg.total = Cardinality(found)
            /\ pg.pages * limit >= pg.total
            /\ (pg.pages - 1) * limit < pg.total
            /\ pg.limit = limit
            /\ pg.page = page ]_vars

\* the second page of one entry, of two entries stored: the earlier week
C16_Witness ==
  /\ out.req.op = "list"
  /\ out.req.query = [ limit |-> "1", page |-> "2" ]
  /\ out.rsp.status = 200
  /\ out.rsp.pagination.total = 2
  /\ out.rsp.pagination.pages = 2
  /\ Len(out.rsp.data) = 1
  /\ out.rsp.data[1].weekStart = 1
  /\ \E id \in DOMAIN store : store[id].weekStart = 3

\* both parameters of a week query are present
BothPresent(query) ==
  /\ Has(query, "userId") /\ query.userId # ""
  /\ Has(query, "weekStart") /\ query.weekStart # ""

\* the entries stored for the (userId, weekStart) pair of a week query
StoredForWeek(st, query) ==
  { st[id] : id \in { i \in DOMAIN st :
                        /\ st[i].userId = Trim(query.userId)
                        /\ st[i].weekStart = ParseDate(query.weekStart) } }

\* C17: GET /week is never handled as GetById with id 'week'; a week query
\* with userId and weekStart both present is answered with success (200) and
\* the one entry stored for that pair, or with success (200) and no entry
\* (data null) when none is stored, never with an error.
C17_WeekLookup ==
  [][ /\ Answered("getById") => out'.req.id # "week"
      /\ (Answered("getForWeek") /\ BothPresent(out'.req.query))
           => /\ out'.rsp.status = 200
              /\ out'.rsp.success = TRUE
              /\ Range(out'.rsp.data) = StoredForWeek(store, out'.req.query)
              /\ Len(out'.rsp.data) <= 1
              /\ store' = store ]_vars

\* the same for the week queries whose weekStart denotes a date
C17_WeekLookupOfDates ==
  [][ /\ Answered("getById") => out'.req.id # "week"
      /\ ( /\ Answered("getForWeek")
           /\ BothPresent(out'.req.query)
           /\ ParseDate(out'.req.query.weekStart) # InvalidDate )
           => /\ out'.rsp.status = 200
              /\ out'.rsp.success = TRUE
              /\ Range(out'.rsp.data) = StoredForWeek(store, out'.req.query)
              /\ Len(out'.rsp.data) <= 1
              /\ store' = store ]_vars

\* C18: a week query whose userId or weekStart is absent or empty is answered
\* 400 'userId and weekStart are required'; the answer does not depend on the
\* collection, which is left as it was.
C18_MissingParameters ==
  [][ (Answered("getForWeek") /\ ~BothPresent(out'.req.query))
      => /\ out'.rsp = MissingParameters
         /\ out'.rsp.status = 400
         /\ out'.rsp.error = "userId and weekStart are required"
         /\ store' = store ]_vars

\* only userId was given, while an entry of that user is stored
C18_Witness ==
  /\ out.req.op = "getForWeek"
  /\ out.req.query = [ userId |-> "user123" ]
  /\ out.rsp = MissingParameters
  /\ \E id \in DOMAIN store : store[id].userId = "user123"

\* C19: an Update of a stored entry whose body is a status alone, any of
\* draft, submitted, approved and rejected, is answered 200 whatever the
\* status of the entry was, and the entry stored and returned has the new
\* status.
C19_AnyStatusTransition ==
  [][ \A t \in Statuses :
        ( /\ Answered("update")
          /\ out'.req.body = [ status |-> t ]
          /\ out'.req.id \in DOMAIN store )
          => /\ out'.rsp.status = 200
             /\ store'[out'.req.id].status = t
             /\ out'.rsp.data = << store'[out'.req.id] >> ]_vars

\* an entry created submitted (it keeps its stamp) was set back to draft
C19_Witness ==
  /\ out.req.op = "update"
  /\ out.req.body = [ status |-> "draft" ]
  /\ out.rsp.status = 200
  /\ out.req.id \in DOMAIN store
  /\ store[out.req.id].status = "draft"
  /\ store[out.req.id].submittedAt \in Clock

\* a success envelope, or a failure envelope with success false and an error
\* string
Envelope(rsp) ==
  \/ rsp.success = TRUE /\ rsp.status \in {200, 201} /\ rsp.error = ""
  \/ rsp.success = FALSE /\ rsp.status \in {400, 404, 500} /\ rsp.error # ""

\* C20: every request gets exactly one response.  A request suspended at a
\* store call has sent nothing, it is resumed when the store answers and
\* then sends one response, to itself, and is over; a request that is not
\* suspended is over with the response it sends.  Every response is a success
\* envelope or a failure envelope with success false and an error string.
C20_ExactlyOneResponse ==
  /\ [][ /\ out' # out => (out'.req # NoReq /\ Envelope(out'.rsp))
         /\ \A p \in Procs :
              /\ (pc[p] = "idle" /\ pc'[p] # "idle")
                   => (out' = out /\ req'[p] # NoReq)
              /\ (pc[p] # "idle" /\ pc'[p] = "idle")
                   => /\ out'.req.op = req[p].op
                      /\ Envelope(out'.rsp)
                      /\ req'[p] = NoReq
              /\ (pc[p] = "idle" /\ pc'[p] = "idle") => req'[p] = NoReq ]_vars
  /\ \A p \in Procs : (pc[p] # "idle") ~> (pc[p] = "idle")

\* a List, suspended at its two store queries, was answered and is over
C20_Witness ==
  /\ out.req.op = "list"
  /\ out.rsp.status = 200
  /\ Len(out.rsp.data) = 2
  /\ pc[1] = "idle"
  /\ req[1] = NoReq

\* C21: a write that the unique index on (userId, weekStart) rejects is
\* answered 400 'Time entry already exists for this week' and leaves the
\* collection as it was, be it the save of a Create or an Update that moves
\* an entry onto the pair held by another entry.
C21_UniqueRejectionIsDuplicate ==
  [][ /\ \A p \in Procs :
           ( /\ pc[p] = "save" /\ pc'[p] = "idle"
             /\ HoldsKeyOf(store, req[p].body) )
             => (out'.rsp = DuplicateEntry /\ store' = store)
      /\ ( /\ Answered("update")
           /\ UpdateBodyErrors(out'.req.body) = <<>>
           /\ out'.req.id \in DOMAIN store
           /\ LET k == KeyAfter(store, out'.req.id, out'.req.body)
              IN KeyHeldByOther(store, out'.req.id, k[1], k[2]) )
           => (out'.rsp = DuplicateEntry /\ store' = store) ]_vars

\* the part of it that holds: the rejected write of a Create is answered
\* DuplicateEntry, and a rejected Update changes no entry
C21_RejectedWriteChangesNothing ==
  [][ /\ \A p \in Procs :
           ( /\ pc[p] = "save" /\ pc'[p] = "idle"
             /\ HoldsKeyOf(store, req[p].body) )
             => (out'.rsp = DuplicateEntry /\ store' = store)
      /\ ( /\ Answered("update")
           /\ UpdateBodyErrors(out'.req.body) = <<>>
           /\ out'.req.id \in DOMAIN store
           /\ LET k == KeyAfter(store, out'.req.id, out'.req.body)
              IN KeyHeldByOther(store, out'.req.id, k[1], k[2]) )
           => (out'.rsp.success = FALSE /\ store' = store) ]_vars

\* the fixed error string of each handler's last catch branch
GenericError(op) ==
  CASE op = "list" -> "Failed to fetch time entries"
    [] op = "getById" -> "Failed to fetch time entry"
    [] op = "create" -> "Failed to create time entry"
    [] op = "update" -> "Failed to update time entry"
    [] op = "delete" -> "Failed to delete time entry"
    [] op = "getForWeek" -> "Failed to fetch time entry for week"
    [] OTHER -> ""

\* C22: a 500 answer is given only for a failure of the store that the
\* request did not cause; the store of this model answers every call, so
\* no request, whatever it carries, is answered 500.
C22_No500ForRequestCausedFailure ==
  [][ \A op \in {"list", "getById", "create", "update", "delete", "getForWeek"} :
        Answered(op) => out'.rsp.status # 500 ]_vars

\* the part of it that holds: a 500 answer carries the handler's fixed
\* string, no details and no data, and the failed call wrote nothing
C22_GenericFailure ==
  [][ out'.rsp.status = 500
        => /\ out'.rsp = Failure(500, GenericError(out'.req.op))
           /\ store' = store ]_vars

\* C23: List, GetById and GetForWeek write nothing: the step that answers
\* one of them, and the step of List between its two queries, leave the
\* collection as it was, and a GetById that follows a GetById of the same
\* id with no response to another request in between gives the same answer.
C23_ReadOnly ==
  [][ /\ \A op \in {"list", "getById", "getForWeek"} :
           Answered(op) => store' = store
      /\ (\E p \in Procs : pc[p] = "idle" /\ pc'[p] = "count") => store' = store
      /\ (out.req.op = "getById" /\ out'.req = out.req) => out'.rsp = out.rsp ]_vars

\* an entry was read by its id while a List is between its two queries
C23_Witness ==
  /\ out.req.op = "getById" /\ out.rsp.status = 200
  /\ out.rsp.data = << store[out.req.id] >>
  /\ \E p \in Procs : pc[p] = "count"

\* the status and submittedAt of a request body
SubmitFields(body) == Restrict(body, {"status", "submittedAt"})

\* a Create body that carries the status and submittedAt of another request
CreateBodyWith(fields) ==
  [ f \in (DOMAIN Mock \ {"status"}) \cup DOMAIN fields |->
      IF f \in DOMAIN fields THEN fields[f] ELSE Mock[f] ]

MockKey == << Trim(Mock.userId), ParseDate(Mock.weekStart) >>

\* C25: deletion leaves no tombstone.  Every entry of the status clients
\* holds the pair of mockTimeEntry, so a deleted entry held it: once one is
\* deleted and the pair is free, the save of a valid Create for the pair is
\* answered 201 with an entry of that pair under an identifier that no
\* deleted entry had, and a GetById of a deleted identifier is answered
\* NotFound, before and after the pair is taken again.
C25_NoTombstone ==
  [][ /\ \A id \in DOMAIN store : << store[id].userId, store[id].weekStart >> = MockKey
      /\ \A p \in Procs :
           ( /\ pc[p] = "save" /\ pc'[p] = "idle"
             /\ deleted # {}
             /\ ~KeyHeld(store, MockKey[1], MockKey[2]) )
             => /\ out'.rsp.status = 201
                /\ out'.rsp.data[1]._id \notin deleted
                /\ out'.rsp.data[1]._id \in DOMAIN store' \ DOMAIN store
                /\ << out'.rsp.data[1].userId, out'.rsp.data[1].weekStart >> = MockKey
      /\ (Answered("getById") /\ out'.req.id \in deleted)
           => out'.rsp = NotFound ]_vars

\* the pair of a deleted entry is held again, by an entry with another
\* identifier, and the deleted identifier was looked up and not found
C25_Witness ==
  /\ deleted # {}
  /\ \E id \in DOMAIN store :
       id \notin deleted /\ << store[id].userId, store[id].weekStart >> = MockKey
  /\ out.req.op = "getById" /\ out.req.id \in deleted
  /\ out.rsp = NotFound

\* C28: every stored entry whose status is submitted has a submittedAt.
C28_SubmittedHasSubmittedAt ==
  \A id \in DOMAIN store :
    store[id].status = "submitted" => store[id].submittedAt # NoDate

\* C29: the number of stored entries changes only by +1, in the save of a
\* Create answered 201, and by -1, in a Delete answered 200; an Update
\* never adds or removes an entry, and an Update of an identifier that is
\* not stored, deleted before or never given, is answered NotFound when
\* the request is valid.
C29_CountChangesOnlyByCreateAndDelete ==
  [][ /\ DOMAIN store' # DOMAIN store
           => \/ /\ Answered("create") /\ out'.rsp.status = 201
                 /\ DOMAIN store' = DOMAIN store \cup { out'.rsp.data[1]._id }
                 /\ Cardinality(DOMAIN store') = Cardinality(DOMAIN store) + 1
              \/ /\ Answered("delete") /\ out'.rsp.status = 200
                 /\ DOMAIN store' = DOMAIN store \ { out'.req.id }
                 /\ Cardinality(DOMAIN store') = Cardinality(DOMAIN store) - 1
      /\ (Answered("create") /\ out'.rsp.status = 201)
           => Cardinality(DOMAIN store') = Cardinality(DOMAIN store) + 1
      /\ (Answered("delete") /\ out'.rsp.status = 200)
           => Cardinality(DOMAIN store') = Cardinality(DOMAIN store) - 1
      /\ Answered("update")
           => /\ DOMAIN store' = DOMAIN store
              /\ out'.rsp.status = 200 => out'.req.id \in DOMAIN store
              /\ ( /\ out'.req.id \notin DOMAIN store
                   /\ IsObjectId(out'.req.id)
                   /\ UpdateBodyErrors(out'.req.body) = <<>> )
                   => out'.rsp = NotFound ]_vars

\* an Update of a deleted entry was answered NotFound and the entry is
\* still gone
C29_Witness ==
  /\ out.req.op = "update" /\ out.req.id \in deleted
  /\ out.rsp = NotFound
  /\ out.req.id \notin DOMAIN store

\* C30: every List response is consistent in itself, also when Create and
\* Delete requests of other clients run between its two store queries: the
\* number of entries in data is min(limit, max(0, total - (page-1)*limit))
\* for the total of the same response.
C30_ListConsistent ==
  [][ (Answered("list") /\ out'.rsp.status = 200)
        => LET pg == out'.rsp.pagination
               rest == pg.total - (pg.page - 1) * pg.limit
           IN Len(out'.rsp.data) = Min(pg.limit, IF rest < 0 THEN 0 ELSE rest) ]_vars

\* a call of connectDB by c runs up to its await or its return
Called(c) == call[c].at = "queued" /\ call'[c].at # "queued"

\* C26: at most one connection attempt is outstanding at any time; a call
\* that runs while an attempt is outstanding awaits that attempt and starts
\* none, and once an attempt has succeeded a call starts none and gets the
\* cached handle, at once or from the attempt that succeeded.
C26_OneAttemptAtATime ==
  [][ /\ Cardinality(Outstanding(attempts')) <= 1
      /\ \A c \in Callers :
           Called(c)
             => /\ Outstanding(attempts) # {}
                     => /\ Len(attempts') = Len(attempts)
                        /\ call'[c].at = "await"
                        /\ call'[c].on \in Outstanding(attempts)
                /\ (\E n \in 1..Len(attempts) : attempts[n].state = "resolved")
                     => /\ Len(attempts') = Len(attempts)
                        /\ \/ call'[c].got = Mongoose
                           \/ /\ call'[c].at = "await"
                              /\ attempts[call'[c].on].state = "resolved" ]_vars

\* the part of it that holds: while no attempt has failed at most one is
\* outstanding, and once the handle is cached a call returns it and starts
\* no attempt
C26_OneAttemptWithoutFailure ==
  [][ /\ (\A n \in 1..Len(attempts') : attempts'[n].state # "rejected")
           => Cardinality(Outstanding(attempts')) <= 1
      /\ \A c \in Callers :
           (Called(c) /\ cached.conn # NoConn)
             => /\ call'[c] = [at |-> "idle", on |-> NoPromise, got |-> Mongoose]
                /\ attempts' = attempts /\ cached' = cached ]_vars

\* caller c is resumed with the failure of the attempt it awaited
Rejected(c) ==
  /\ call[c].at = "await" /\ call'[c].at = "idle"
  /\ attempts[call[c].on].state = "rejected"

\* C27: a caller resumed with the failure of the attempt it awaited gets the
\* error, the cached handle is left as it was and the cached attempt is
\* cleared, so that the next call starts a fresh attempt; the clearing
\* discards no other attempt that is still outstanding.
C27_FailureClearsItsAttempt ==
  [][ \A c \in Callers :
        /\ Rejected(c)
             => /\ call'[c].got = "error"
                /\ cached'.conn = cached.conn
                /\ cached'.promise = NoPromise
                /\ cached.promise \in {NoPromise, call[c].on}
                     \/ cached.promise \notin Outstanding(attempts)
        /\ (Called(c) /\ cached.conn = NoConn /\ cached.promise = NoPromise)
             => /\ Len(attempts') = Len(attempts) + 1
                /\ cached'.promise = Len(attempts')
                /\ cached'.promise \in Outstanding(attempts') ]_vars

\* the part of it that holds: the error is passed on, the handle is left as
\* it was, the cached attempt is cleared and the next call starts a fresh one
C27_FailureReported ==
  [][ \A c \in Callers :
        /\ Rejected(c)
             => /\ call'[c].got = "error"
                /\ cached'.conn = cached.conn
                /\ cached'.promise = NoPromise
        /\ (Called(c) /\ cached.conn = NoConn /\ cached.promise = NoPromise)
             => /\ Len(attempts') = Len(attempts) + 1
                /\ cached'.promise = Len(attempts')
                /\ cached'.promise \in Outstanding(attempts') ]_vars

====
